---------------------------- MODULE Spec2Model ----------------------------
(***************************************************************************)
(* Model of advanced-context-menu-manager.py: the registry engine          *)
(* (ContextMenuRegistry), the catalog (ScriptManager) and the category     *)
(* editor of the GUI (AdvancedContextMenuGUI.save_category).               *)
(*                                                                         *)
(* Representation.                                                         *)
(*  - A string that the code splits on the backslash is a sequence of its  *)
(*    backslash-free pieces: joining with "\\" is concatenation and        *)
(*    split('\\') yields the pieces.  A registry key is the sequence of    *)
(*    its components below HKEY_CLASSES_ROOT.                              *)
(*  - The registry is a function from the existing keys to their values;   *)
(*    the values of a key are a set of <<name, data>> pairs, data being a  *)
(*    sequence of strings.                                                 *)
(*  - None and "" (both falsy in Python) are the empty string NoId.        *)
(***************************************************************************)
EXTENDS Integers, Sequences, FiniteSets, TLC

VARIABLES
    reg,      \* HKEY_CLASSES_ROOT: key -> set of <<value name, data>>
    config,   \* ScriptManager.config: [categories, scripts, python_path]
    disk,     \* contents of config.json
    files,    \* the files of scripts_dir
    uuids,    \* how many category / script ids uuid4 has produced
    denied,   \* the keys the store refuses to create or delete (access denied)
    frame,    \* GUI category frame: [category_id, parent_map]
    last,     \* the last operation, its arguments and its outcome
    nops      \* number of operations performed

vars == <<reg, config, disk, files, uuids, denied, frame, last, nops>>

-----------------------------------------------------------------------------
(* Bounds *)

MaxOps == 4
MaxRegOps == 3
MaxCategories == 2
MaxScripts == 2

-----------------------------------------------------------------------------
(* Generic helpers *)

NoId == ""

Last(s) == s[Len(s)]

IsPrefix(p, k) == Len(p) <= Len(k) /\ SubSeq(k, 1, Len(p)) = p

-----------------------------------------------------------------------------
(* The native store: winreg *)

\* Child keys of key k.
Children(r, k) ==
    {j \in DOMAIN r : Len(j) = Len(k) + 1 /\ IsPrefix(k, j)}

\* winreg.CreateKey: open the key, creating it and every missing ancestor.
CreateKey(r, k) ==
    LET new == {SubSeq(k, 1, n) : n \in 1..Len(k)} \ DOMAIN r
    IN  [j \in DOMAIN r \cup new |-> IF j \in DOMAIN r THEN r[j] ELSE {}]

\* A SetValueEx that appends the data to the value already stored.
SetValueExAppend(r, k, name, data) ==
    LET old == {v \in r[k] : v[1] = name}
        prior == IF old = {} THEN <<>> ELSE (CHOOSE v \in old : TRUE)[2]
    IN  [r EXCEPT ![k] = (@ \ old) \cup {<<name, prior \o data>>}]

\* winreg.SetValueEx: set (overwrite) one named value of an existing key.
SetValueEx(r, k, name, data) ==
    [r EXCEPT ![k] = {v \in @ : v[1] # name} \cup {<<name, data>>}]

\* A DeleteKey that also deletes a key that still has subkeys.
CanDeleteKeyWithSubkeys(r, k, locked) ==
    /\ k \in DOMAIN r
    /\ k \notin locked

\* winreg.DeleteKey succeeds only on an existing key without subkeys.
CanDeleteKey(r, k, locked) ==
    /\ k \in DOMAIN r
    /\ Children(r, k) = {}
    /\ k \notin locked

DeleteKey(r, k) == [j \in DOMAIN r \ {k} |-> r[j]]

\* A CreateKey whose refusal is swallowed: the operations after it still run.
TryCreateKeyContinue(st, k, locked) ==
    IF ~st.ok \/ k \in locked THEN st
    ELSE [st EXCEPT !.reg = CreateKey(st.reg, k)]

\* A store operation inside add_menu_item's try block: st = [reg, ok]; once an
\* exception was raised (ok = FALSE) the remaining operations are skipped.
TryCreateKey(st, k, locked) ==
    IF ~st.ok THEN st
    ELSE IF k \in locked THEN [st EXCEPT !.ok = FALSE]
    ELSE [st EXCEPT !.reg = CreateKey(st.reg, k)]

TrySetValueEx(st, k, name, data) ==
    IF ~st.ok THEN st
    ELSE [st EXCEPT !.reg = SetValueEx(st.reg, k, name, data)]

-----------------------------------------------------------------------------
(* ContextMenuRegistry *)

BaseKey(context_type) ==
    IF context_type = "directory" THEN <<"Directory", "shell">>
    ELSE IF context_type = "file" THEN <<"*", "shell">>
    ELSE <<context_type, "shell">>

\* add_menu_item, key_path after the loop over the first n components:
\* every component is followed by its "shell" container.
RECURSIVE AddKeyPath(_, _, _)
AddKeyPath(context_type, comps, n) ==
    IF n = 0 THEN BaseKey(context_type)
    ELSE AddKeyPath(context_type, comps, n - 1) \o <<comps[n], "shell">>

\* The key add_menu_item writes the command to.
AddCommandKey(context_type, comps) ==
    AddKeyPath(context_type, comps, Len(comps) - 1) \o <<Last(comps)>>

\* One iteration of add_menu_item's loop, for component i (1-based).
AddSubmenu(st, context_type, comps, i, locked) ==
    LET submenu == AddKeyPath(context_type, comps, i - 1) \o <<comps[i]>>
        s1 == TryCreateKey(st, submenu, locked)
        s2 == TrySetValueEx(s1, submenu, "MUIVerb", <<comps[i]>>)
        s3 == TrySetValueEx(s2, submenu, "subcommands", <<"">>)
    IN  IF i = 1 THEN TryCreateKey(s3, submenu \o <<"shell">>, locked) ELSE s3

RECURSIVE AddSubmenus(_, _, _, _, _)
AddSubmenus(st, context_type, comps, n, locked) ==
    IF n = 0 THEN st
    ELSE AddSubmenu(AddSubmenus(st, context_type, comps, n - 1, locked),
                    context_type, comps, n, locked)

\* add_menu_item: [reg |-> the store afterwards, ok |-> the value returned].
add_menu_item(r, context_type, comps, command, icon, locked) ==
    LET s0  == AddSubmenus([reg |-> r, ok |-> TRUE], context_type, comps,
                           Len(comps) - 1, locked)
        key == AddCommandKey(context_type, comps)
        s1  == TryCreateKey(s0, key, locked)
        s2  == TrySetValueEx(s1, key, "", <<Last(comps)>>)
        s3  == IF icon # <<>> THEN TrySetValueEx(s2, key, "Icon", icon) ELSE s2
        s4  == TryCreateKey(s3, key \o <<"command">>, locked)
    IN  TrySetValueEx(s4, key \o <<"command">>, "", command)

\* remove_menu_item, the key built from the first n components: only the
\* first component is followed by "shell" (lines 107-111 and 142-146).
RECURSIVE RemoveKeyPath(_, _, _)
RemoveKeyPath(context_type, comps, n) ==
    IF n = 0 THEN BaseKey(context_type)
    ELSE RemoveKeyPath(context_type, comps, n - 1)
            \o (IF n = 1 THEN <<comps[n], "shell">> ELSE <<comps[n]>>)

\* The key remove_menu_item deletes as the command key.
RemoveCommandKey(context_type, comps) ==
    RemoveKeyPath(context_type, comps, Len(comps) - 1) \o <<Last(comps)>>

\* try: DeleteKey(k) except: pass
TryDeleteKey(r, k, locked) ==
    IF CanDeleteKey(r, k, locked) THEN DeleteKey(r, k) ELSE r

\* The clean-up loop, for i = len-1 down to 1: delete the parent built from
\* the first i components; the first failing deletion ends the loop.
RECURSIVE PruneParents(_, _, _, _, _)
PruneParents(r, context_type, comps, i, locked) ==
    IF i < 1 THEN r
    ELSE LET parent_path == RemoveKeyPath(context_type, comps, i)
         IN  IF CanDeleteKey(r, parent_path, locked)
             THEN PruneParents(DeleteKey(r, parent_path), context_type, comps,
                               i - 1, locked)
             ELSE r

\* A remove_menu_item that reports whether the command key was there.
remove_menu_item_strict(r, context_type, comps, locked) ==
    LET key_path == RemoveKeyPath(context_type, comps, Len(comps) - 1)
        key == RemoveCommandKey(context_type, comps)
        r1  == TryDeleteKey(r, key \o <<"command">>, locked)
        r2  == TryDeleteKey(r1, key, locked)
        r3  == IF key_path \in DOMAIN r2 /\ Children(r2, key_path) = {}
               THEN PruneParents(r2, context_type, comps, Len(comps) - 1, locked)
               ELSE r2
    IN  [reg |-> r3, ok |-> key \in DOMAIN r]

\* remove_menu_item: every exception is swallowed and True is returned.
remove_menu_item(r, context_type, comps, locked) ==
    LET key_path == RemoveKeyPath(context_type, comps, Len(comps) - 1)
        key == RemoveCommandKey(context_type, comps)
        r1  == TryDeleteKey(r, key \o <<"command">>, locked)
        r2  == TryDeleteKey(r1, key, locked)
        r3  == IF key_path \in DOMAIN r2 /\ Children(r2, key_path) = {}
               THEN PruneParents(r2, context_type, comps, Len(comps) - 1, locked)
               ELSE r2
    IN  [reg |-> r3, ok |-> TRUE]

-----------------------------------------------------------------------------
(* ScriptManager *)

\* uuid4 values: the n-th identifier generated for a category / a script.
CategoryIds == <<"c1", "c2", "c3", "c4", "c5", "c6">>
ScriptIds == <<"s1", "s2", "s3", "s4", "s5", "s6">>

\* The pieces of os.path.join(scripts_dir, x) and of launcher_path.
scripts_dir == <<"scripts_dir">>
launcher_path == <<"launcher.py">>

\* An icon_path at which there is no file: shutil.copy2 raises.
MissingIcon == <<"missing.ico">>

\* next((x for x in seq if x['id'] == id), None): the domain of the result is
\* empty when there is no such element.
RECURSIVE Find(_, _)
Find(seq, id) ==
    IF seq = <<>> THEN <<>>
    ELSE IF Head(seq).id = id THEN <<Head(seq)>>
    ELSE Find(Tail(seq), id)

\* A lookup that falls back to the first element when the id is absent.
RECURSIVE IndexOfOrFirst(_, _, _)
IndexOfOrFirst(seq, id, i) ==
    IF i > Len(seq) THEN (IF seq = <<>> THEN 0 ELSE 1)
    ELSE IF seq[i].id = id THEN i
    ELSE IndexOfOrFirst(seq, id, i + 1)

\* Position of the first element with this id (0 when absent).
RECURSIVE IndexOf(_, _, _)
IndexOf(seq, id, i) ==
    IF i > Len(seq) THEN 0
    ELSE IF seq[i].id = id THEN i
    ELSE IndexOf(seq, id, i + 1)

RECURSIVE Without(_, _)
Without(seq, id) ==
    IF seq = <<>> THEN <<>>
    ELSE IF Head(seq).id # id THEN <<Head(seq)>> \o Without(Tail(seq), id)
    ELSE Without(Tail(seq), id)

\* An event of the running operation, in call order.
Event(ev, ctx, path, ok) == [ev |-> ev, ctx |-> ctx, path |-> path, ok |-> ok]

\* The state an operation works on: the catalog in memory, the registry,
\* config.json, the files of scripts_dir and the calls made so far.
World(c, r, d, f) ==
    [config |-> c, reg |-> r, disk |-> d, files |-> f, log |-> <<>>, exc |-> ""]

\* Has an exception left the running operation?  The statements after the
\* raise are not executed.
Raised(w) == w.exc # ""

save_config(w) ==
    IF Raised(w) THEN w
    ELSE [w EXCEPT !.disk = w.config,
                   !.log = Append(@, Event("persist", "", <<>>, TRUE))]

\* get_category_path; the recursion follows the parent chain.  On a chain that
\* never reaches the root the code recurses until the interpreter raises
\* RecursionError: the model stops the walk after as many steps as there are
\* categories and answers Diverges.
Diverges == <<"<RecursionError>">>

\* A get_category_path that lists the category names leaf-first.
RECURSIVE CategoryPathLeafFirst(_, _, _)
CategoryPathLeafFirst(cfg, category_id, fuel) ==
    IF category_id = NoId THEN <<"ScriptTools">>
    ELSE LET found == Find(cfg.categories, category_id)
         IN  IF found = <<>> THEN <<"ScriptTools">>
             ELSE LET category == found[1]
                  IN  IF category.parent # NoId
                      THEN IF fuel = 0 THEN Diverges
                           ELSE LET parent_path ==
                                      CategoryPathLeafFirst(cfg, category.parent, fuel - 1)
                                IN  IF parent_path = Diverges THEN Diverges
                                    ELSE <<"ScriptTools">> \o category.name
                                            \o Tail(parent_path)
                      ELSE <<"ScriptTools">> \o category.name

RECURSIVE CategoryPath(_, _, _)
CategoryPath(cfg, category_id, fuel) ==
    IF category_id = NoId THEN <<"ScriptTools">>
    ELSE LET found == Find(cfg.categories, category_id)
         IN  IF found = <<>> THEN <<"ScriptTools">>
             ELSE LET category == found[1]
                  IN  IF category.parent # NoId
                      THEN IF fuel = 0 THEN Diverges
                           ELSE LET parent_path ==
                                      CategoryPath(cfg, category.parent, fuel - 1)
                                IN  IF parent_path = Diverges THEN Diverges
                                    ELSE parent_path \o category.name
                      ELSE <<"ScriptTools">> \o category.name

get_category_path(cfg, category_id) ==
    CategoryPath(cfg, category_id, Len(cfg.categories))

\* menu_path of a script: f"{category_path}\\{script['name']}".
MenuPath(cfg, script) == get_category_path(cfg, script.category) \o script.name

\* launcher_cmd of _create_registry_entries.
LauncherCmd(cfg, script) ==
    cfg.python_path \o launcher_path \o scripts_dir \o script.filename \o <<"%1">>

IconPath(script) ==
    IF script.icon # <<>> THEN scripts_dir \o script.icon ELSE <<>>

\* _create_registry_entries: one add_menu_item per context, in list order;
\* the value each call returns is dropped.
RECURSIVE CreateEntries(_, _, _, _, _)
CreateEntries(w, script, menu_path, n, locked) ==
    IF n = 0 THEN w
    ELSE LET w1 == CreateEntries(w, script, menu_path, n - 1, locked)
             context == script.contexts[n]
             res == add_menu_item(w1.reg, context, menu_path,
                                  LauncherCmd(w1.config, script),
                                  IconPath(script), locked)
         IN  [w1 EXCEPT !.reg = res.reg,
                        !.log = Append(@, Event("add", context, menu_path, res.ok))]

_create_registry_entries(w, script, locked) ==
    IF Raised(w) THEN w
    ELSE IF get_category_path(w.config, script.category) = Diverges
    THEN [w EXCEPT !.exc = "RecursionError"]
    ELSE CreateEntries(w, script, MenuPath(w.config, script), Len(script.contexts),
                       locked)

\* _remove_registry_entries: one remove_menu_item per context, in list order.
RECURSIVE RemoveEntries(_, _, _, _, _)
RemoveEntries(w, script, menu_path, n, locked) ==
    IF n = 0 THEN w
    ELSE LET w1 == RemoveEntries(w, script, menu_path, n - 1, locked)
             context == script.contexts[n]
             res == remove_menu_item(w1.reg, context, menu_path, locked)
         IN  [w1 EXCEPT !.reg = res.reg,
                        !.log = Append(@, Event("remove", context, menu_path, res.ok))]

_remove_registry_entries(w, script, locked) ==
    IF Raised(w) THEN w
    ELSE IF get_category_path(w.config, script.category) = Diverges
    THEN [w EXCEPT !.exc = "RecursionError"]
    ELSE RemoveEntries(w, script, MenuPath(w.config, script), Len(script.contexts),
                       locked)

\* An add_category that also creates the group key of the category.
add_category_registering(w, category_id, name, parent) ==
    LET category == [id |-> category_id, name |-> name, parent |-> parent]
        w1 == [w EXCEPT !.config.categories = Append(@, category),
                        !.reg = CreateKey(@, <<"*", "shell", "ScriptTools", "shell">>
                                                \o name),
                        !.log = Append(@, Event("mutate", "", <<>>, TRUE))]
    IN  [world |-> save_config(w1), result |-> category_id]

\* An add_category that does not save the catalog.
add_category_unsaved(w, category_id, name, parent) ==
    LET category == [id |-> category_id, name |-> name, parent |-> parent]
    IN  [world |-> [w EXCEPT !.config.categories = Append(@, category),
                             !.log = Append(@, Event("mutate", "", <<>>, TRUE))],
         result |-> category_id]

\* add_category: [world, result].
add_category(w, category_id, name, parent) ==
    LET category == [id |-> category_id, name |-> name, parent |-> parent]
        w1 == [w EXCEPT !.config.categories = Append(@, category),
                        !.log = Append(@, Event("mutate", "", <<>>, TRUE))]
    IN  [world |-> save_config(w1), result |-> category_id]

\* An add_script that registers first and keeps the record out of the
\* catalog when a registration failed.
add_script_registry_first(w, script_id, name, category_id, contexts, icon_path, locked) ==
    LET dest_filename == <<script_id, ".py">>
        icon_filename == <<script_id, "_icon">>
        copied == {dest_filename} \cup (IF icon_path # <<>> THEN {icon_filename} ELSE {})
        script_info == [id |-> script_id, name |-> name, category |-> category_id,
                        filename |-> dest_filename, contexts |-> contexts,
                        icon |-> IF icon_path # <<>> THEN icon_filename ELSE <<>>]
        w1 == _create_registry_entries([w EXCEPT !.files = @ \cup copied],
                                       script_info, locked)
        w2 == [w1 EXCEPT !.config.scripts = Append(@, script_info),
                         !.log = Append(@, Event("mutate", "", <<>>, TRUE))]
    IN  [world |-> IF \E j \in 1..Len(w1.log) : ~w1.log[j].ok
                   THEN w1 ELSE save_config(w2),
         result |-> script_id]

\* add_script: copy the file (and the icon) under id-derived names, append,
\* save, register.  The script id is returned whatever the registry answered.
add_script(w, script_id, name, category_id, contexts, icon_path, locked) ==
    LET dest_filename == <<script_id, ".py">>
        icon_filename == <<script_id, "_icon">>
        copied == {dest_filename} \cup (IF icon_path # <<>> THEN {icon_filename} ELSE {})
        script_info == [id |-> script_id, name |-> name, category |-> category_id,
                        filename |-> dest_filename, contexts |-> contexts,
                        icon |-> IF icon_path # <<>> THEN icon_filename ELSE <<>>]
        w1 == [w EXCEPT !.files = @ \cup copied,
                        !.config.scripts = Append(@, script_info),
                        !.log = Append(@, Event("mutate", "", <<>>, TRUE))]
        w2 == save_config(w1)
    IN  [world |-> _create_registry_entries(w2, script_info, locked),
         result |-> script_id]

\* update_script, its steps in order.
UpdateRemoveOld(w, i, locked) ==
    _remove_registry_entries(w, w.config.scripts[i], locked)

\* An update of the record that assigns the category whatever was passed.
UpdateFieldsAssignCategory(w, i, name, category_id, contexts, icon_path) ==
    LET script == w.config.scripts[i]
        icon_filename == <<script.id, "_icon">>
        s1 == IF name # <<>> THEN [script EXCEPT !.name = name] ELSE script
        s2 == [s1 EXCEPT !.category = category_id]
        s3 == IF contexts # <<>> THEN [s2 EXCEPT !.contexts = contexts] ELSE s2
        s4 == IF icon_path # <<>> THEN [s3 EXCEPT !.icon = icon_filename] ELSE s3
        f1 == IF icon_path # <<>>
              THEN (w.files \ {script.icon}) \cup {icon_filename}
              ELSE w.files
    IN  IF Raised(w) THEN w
        ELSE [w EXCEPT !.config.scripts[i] = s4,
                       !.files = f1,
                       !.log = Append(@, Event("mutate", "", <<>>, TRUE))]

UpdateFields(w, i, name, category_id, contexts, icon_path) ==
    LET script == w.config.scripts[i]
        icon_filename == <<script.id, "_icon">>
        s1 == IF name # <<>> THEN [script EXCEPT !.name = name] ELSE script
        s2 == IF category_id # NoId THEN [s1 EXCEPT !.category = category_id] ELSE s1
        s3 == IF contexts # <<>> THEN [s2 EXCEPT !.contexts = contexts] ELSE s2
        s4 == IF icon_path # <<>> THEN [s3 EXCEPT !.icon = icon_filename] ELSE s3
        f1 == IF icon_path # <<>>
              THEN (w.files \ {script.icon}) \cup {icon_filename}
              ELSE w.files
    IN  IF Raised(w) THEN w
        ELSE [w EXCEPT !.config.scripts[i] = s4,
                       !.files = f1,
                       !.log = Append(@, Event("mutate", "", <<>>, TRUE))]

UpdateAddNew(w, i, locked) ==
    _create_registry_entries(w, w.config.scripts[i], locked)

\* An update_script that writes the new fields before it removes the old
\* registry entries.
update_script_mutate_first(w, script_id, name, category_id, contexts, icon_path, locked) ==
    LET i == IndexOf(w.config.scripts, script_id, 1)
    IN  IF i = 0 THEN [world |-> w, result |-> "False"]
        ELSE LET w1 == UpdateFields(w, i, name, category_id, contexts, icon_path)
                 w2 == UpdateRemoveOld(w1, i, locked)
                 w3 == save_config(w2)
             IN  [world |-> UpdateAddNew(w3, i, locked), result |-> "True"]

\* update_script up to the shutil.copy2 that raises: the name, the category
\* and the contexts are written, the old icon file is deleted, and the
\* exception leaves update_script before save_config.
UpdateFieldsUntilCopy(w, i, name, category_id, contexts) ==
    LET script == w.config.scripts[i]
        s1 == IF name # <<>> THEN [script EXCEPT !.name = name] ELSE script
        s2 == IF category_id # NoId THEN [s1 EXCEPT !.category = category_id] ELSE s1
        s3 == IF contexts # <<>> THEN [s2 EXCEPT !.contexts = contexts] ELSE s2
    IN  IF Raised(w) THEN w
        ELSE [w EXCEPT !.config.scripts[i] = s3,
                       !.files = @ \ {script.icon},
                       !.log = Append(@, Event("mutate", "", <<>>, TRUE))]

update_script(w, script_id, name, category_id, contexts, icon_path, locked) ==
    LET i == IndexOf(w.config.scripts, script_id, 1)
    IN  IF i = 0 THEN [world |-> w, result |-> "False"]
        ELSE IF icon_path = MissingIcon
        THEN [world |-> UpdateFieldsUntilCopy(UpdateRemoveOld(w, i, locked), i,
                                              name, category_id, contexts),
              result |-> "FileNotFoundError"]
        ELSE LET w1 == UpdateRemoveOld(w, i, locked)
                 w2 == UpdateFields(w1, i, name, category_id, contexts, icon_path)
                 w3 == save_config(w2)
             IN  [world |-> UpdateAddNew(w3, i, locked), result |-> "True"]

\* A remove_script that deletes the record before it removes the registry
\* entries.
remove_script_record_first(w, script_id, locked) ==
    LET i == IndexOf(w.config.scripts, script_id, 1)
    IN  IF i = 0 THEN [world |-> w, result |-> "False"]
        ELSE LET script == w.config.scripts[i]
                 w1 == [w EXCEPT !.files = @ \ {script.filename, script.icon},
                                 !.config.scripts = Without(@, script_id),
                                 !.log = Append(@, Event("mutate", "", <<>>, TRUE))]
                 w2 == _remove_registry_entries(w1, script, locked)
             IN  [world |-> save_config(w2), result |-> "True"]

\* remove_script.
remove_script(w, script_id, locked) ==
    LET i == IndexOf(w.config.scripts, script_id, 1)
    IN  IF i = 0 THEN [world |-> w, result |-> "False"]
        ELSE LET script == w.config.scripts[i]
                 w1 == _remove_registry_entries(w, script, locked)
                 w2 == IF Raised(w1) THEN w1
                       ELSE [w1 EXCEPT !.files = @ \ {script.filename, script.icon},
                                       !.config.scripts = Without(@, script_id),
                                       !.log = Append(@, Event("mutate", "", <<>>, TRUE))]
             IN  [world |-> save_config(w2), result |-> "True"]

\* Ids of the elements of seq whose field (category / parent) equals id.
RECURSIVE IdsWhere(_, _, _)
IdsWhere(seq, field, id) ==
    IF seq = <<>> THEN <<>>
    ELSE IF Head(seq)[field] = id
         THEN <<Head(seq).id>> \o IdsWhere(Tail(seq), field, id)
         ELSE IdsWhere(Tail(seq), field, id)

RECURSIVE RemoveScripts(_, _, _)
RemoveScripts(w, ids, locked) ==
    IF ids = <<>> THEN w
    ELSE RemoveScripts(remove_script(w, Head(ids), locked).world, Tail(ids), locked)

\* remove_category: the scripts of the category, then its subcategories
\* (recursively), then the category itself; the lists are taken before the
\* loops that consume them.  Always returns True.
RECURSIVE RemoveCategoryWorld(_, _, _)
RECURSIVE RemoveCategories(_, _, _)

\* A remove_category that deletes the category before its scripts and its
\* subcategories.
RemoveCategoryWorldCategoryFirst(w, category_id, locked) ==
    IF Raised(w) THEN w
    ELSE
    LET scripts_to_remove == IdsWhere(w.config.scripts, "category", category_id)
        subcategories == IdsWhere(w.config.categories, "parent", category_id)
        w1 == [w EXCEPT !.config.categories = Without(@, category_id),
                        !.log = Append(@, Event("mutate", "", <<>>, TRUE))]
        w2 == RemoveScripts(w1, scripts_to_remove, locked)
        w3 == RemoveCategories(w2, subcategories, locked)
    IN  save_config(w3)

RemoveCategoryWorld(w, category_id, locked) ==
    IF Raised(w) THEN w
    ELSE
    LET scripts_to_remove == IdsWhere(w.config.scripts, "category", category_id)
        w1 == RemoveScripts(w, scripts_to_remove, locked)
        subcategories == IdsWhere(w1.config.categories, "parent", category_id)
        w2 == RemoveCategories(w1, subcategories, locked)
        w3 == IF Raised(w2) THEN w2
              ELSE [w2 EXCEPT !.config.categories = Without(@, category_id),
                              !.log = Append(@, Event("mutate", "", <<>>, TRUE))]
    IN  save_config(w3)

RemoveCategories(w, ids, locked) ==
    IF ids = <<>> THEN w
    ELSE RemoveCategories(RemoveCategoryWorld(w, Head(ids), locked), Tail(ids), locked)

remove_category(w, category_id, locked) ==
    [world |-> RemoveCategoryWorld(w, category_id, locked), result |-> "True"]

-----------------------------------------------------------------------------
(* AdvancedContextMenuGUI: the category editor *)

\* The is_child walk of _show_category_details: does the parent chain of cat
\* reach category_id?  (A dangling parent ends the walk.)
RECURSIVE IsChild(_, _, _, _)
IsChild(cfg, parent_id, category_id, fuel) ==
    IF parent_id = NoId \/ fuel = 0 THEN FALSE
    ELSE IF parent_id = category_id THEN TRUE
    ELSE LET parent_cat == Find(cfg.categories, parent_id)
         IN  IF parent_cat = <<>> THEN FALSE
             ELSE IsChild(cfg, parent_cat[1].parent, category_id, fuel - 1)

\* category_parent_map: "None" and, by name, every category that is neither
\* the selected one nor below it; a later category of the same name wins.
RECURSIVE ParentMap(_, _, _)
ParentMap(cfg, category_id, n) ==
    IF n = 0 THEN [name \in {<<"None">>} |-> NoId]
    ELSE LET m == ParentMap(cfg, category_id, n - 1)
             cat == cfg.categories[n]
         IN  IF cat.id = category_id
                \/ IsChild(cfg, cat.parent, category_id, Len(cfg.categories) + 1)
             THEN m
             ELSE [name \in DOMAIN m \cup {cat.name} |->
                      IF name = cat.name THEN cat.id ELSE m[name]]

_show_category_details(cfg, category_id) ==
    [category_id |-> category_id,
     parent_map |-> ParentMap(cfg, category_id, Len(cfg.categories)),
     visible |-> TRUE]

\* The loop of save_category over config['scripts'], first n scripts: the
\* scripts directly in the category are removed and created again.
RECURSIVE SaveCategoryScripts(_, _, _, _)
SaveCategoryScripts(w, category_id, n, locked) ==
    IF n = 0 THEN w
    ELSE LET w1 == SaveCategoryScripts(w, category_id, n - 1, locked)
             script == w1.config.scripts[n]
         IN  IF script.category = category_id
             THEN _create_registry_entries(
                      _remove_registry_entries(w1, script, locked), script, locked)
             ELSE w1

\* save_category: the name and the parent are written first, the catalog is
\* saved, then the registry entries are redone.
save_category(w, fr, category_name, parent_name, locked) ==
    LET category_id == fr.category_id
        parent_id == IF parent_name \in DOMAIN fr.parent_map
                     THEN fr.parent_map[parent_name] ELSE NoId
        i == IndexOf(w.config.categories, category_id, 1)
    IN  IF category_id = NoId THEN [world |-> w, result |-> "Cannot edit root category"]
        ELSE IF i = 0 THEN [world |-> w, result |-> "None"]
        ELSE LET w1 == [w EXCEPT !.config.categories[i].name = category_name,
                                 !.config.categories[i].parent = parent_id,
                                 !.log = Append(@, Event("mutate", "", <<>>, TRUE))]
                 w2 == save_config(w1)
             IN  [world |-> SaveCategoryScripts(w2, category_id,
                                                Len(w2.config.scripts), locked),
                  result |-> "Updated category"]

\* The loops of set_python_path and import_config over config['scripts'],
\* first n scripts.
RECURSIVE UpdateAllEntries(_, _, _)
UpdateAllEntries(w, n, locked) ==
    IF n = 0 THEN w
    ELSE LET w1 == UpdateAllEntries(w, n - 1, locked)
             script == w1.config.scripts[n]
         IN  _create_registry_entries(
                 _remove_registry_entries(w1, script, locked), script, locked)

RECURSIVE RemoveAllEntries(_, _, _)
RemoveAllEntries(w, n, locked) ==
    IF n = 0 THEN w
    ELSE _remove_registry_entries(RemoveAllEntries(w, n - 1, locked),
                                  w.config.scripts[n], locked)

RECURSIVE CreateAllEntries(_, _, _)
CreateAllEntries(w, n, locked) ==
    IF n = 0 THEN w
    ELSE _create_registry_entries(CreateAllEntries(w, n - 1, locked),
                                  w.config.scripts[n], locked)

\* set_python_path: an empty python_path is a cancelled file dialog; update is
\* the answer to "update all registry entries?".
set_python_path(w, python_path, update, locked) ==
    IF python_path = <<>> THEN [world |-> w, result |-> "None"]
    ELSE LET w1 == [w EXCEPT !.config.python_path = python_path,
                             !.log = Append(@, Event("mutate", "", <<>>, TRUE))]
             w2 == save_config(w1)
         IN  IF update
             THEN [world |-> UpdateAllEntries(w2, Len(w2.config.scripts), locked),
                   result |-> "Updated all registry entries with new Python path"]
             ELSE [world |-> w2, result |-> "Python path set"]

\* import_config of a file that was read as imported (the import confirmed);
\* an exception is caught and shown in a message box.
import_config(w, imported, locked) ==
    IF ~({"categories", "scripts", "python_path"} \subseteq DOMAIN imported)
    THEN [world |-> w, result |-> "Invalid configuration file format"]
    ELSE LET w1 == RemoveAllEntries(w, Len(w.config.scripts), locked)
             w2 == IF Raised(w1) THEN w1
                   ELSE [w1 EXCEPT !.config = imported,
                                   !.log = Append(@, Event("mutate", "", <<>>, TRUE))]
             w3 == save_config(w2)
             w4 == CreateAllEntries(w3, Len(w3.config.scripts), locked)
         IN  IF Raised(w4)
             THEN [world |-> [w4 EXCEPT !.exc = ""],
                   result |-> "Failed to import configuration"]
             ELSE [world |-> w4, result |-> "Configuration imported successfully"]

-----------------------------------------------------------------------------
(* The program as a state machine *)

CategoryNames == {<<"Tools">>, <<"Utils">>}
ScriptNames == {<<"Foo">>, <<"Bar">>}
ContextLists == {<<"file">>, <<"file", "directory">>}
IconPaths == {<<>>, <<"icon.ico">>}

\* The access rights of the session: nothing is refused, or the menu group
\* below Directory\shell is (permission denied).
Locks == {{}, {<<"Directory", "shell", "ScriptTools">>}}

default_config ==
    [categories |-> <<>>, scripts |-> <<>>, python_path |-> <<"python.exe">>]

\* The shell keys of Windows exist before the program runs.
InitialRegistry ==
    [k \in {<<"*">>, <<"*", "shell">>, <<"Directory">>, <<"Directory", "shell">>} |-> {}]

Init ==
    /\ reg = InitialRegistry
    /\ config = default_config
    /\ disk = default_config
    /\ files = {}
    /\ uuids = [category |-> 0, script |-> 0]
    /\ denied \in Locks
    /\ frame = [category_id |-> NoId,
                parent_map |-> [name \in {<<"None">>} |-> NoId],
                visible |-> FALSE]
    /\ last = [op |-> "init", id |-> NoId, arg |-> <<>>, result |-> "", log |-> <<>>]
    /\ nops = 0

CategoryIdsOf(cfg) == {cfg.categories[i].id : i \in 1..Len(cfg.categories)}
ScriptIdsOf(cfg) == {cfg.scripts[i].id : i \in 1..Len(cfg.scripts)}

\* Commit the outcome of an operation.
Done(op, id, arg, out) ==
    /\ reg' = out.world.reg
    /\ config' = out.world.config
    /\ disk' = out.world.disk
    /\ files' = out.world.files
    /\ last' = [op |-> op, id |-> id, arg |-> arg,
                result |-> IF Raised(out.world) THEN out.world.exc ELSE out.result,
                log |-> out.world.log]
    /\ nops' = nops + 1
    /\ UNCHANGED denied

Now == World(config, reg, disk, files)

AddCategory ==
    /\ nops < MaxOps
    /\ uuids.category < MaxCategories
    /\ \E name \in CategoryNames, parent \in CategoryIdsOf(config) \cup {NoId} :
          LET category_id == CategoryIds[uuids.category + 1]
          IN  Done("add_category", category_id, <<>>,
                   add_category(Now, category_id, name, parent))
    /\ uuids' = [uuids EXCEPT !.category = @ + 1]
    /\ UNCHANGED frame

AddScript ==
    /\ nops < MaxOps
    /\ uuids.script < MaxScripts
    /\ \E name \in ScriptNames, category_id \in CategoryIdsOf(config) \cup {NoId},
          contexts \in ContextLists, icon_path \in IconPaths :
          LET script_id == ScriptIds[uuids.script + 1]
          IN  Done("add_script", script_id, <<>>,
                   add_script(Now, script_id, name, category_id, contexts,
                              icon_path, denied))
    /\ uuids' = [uuids EXCEPT !.script = @ + 1]
    /\ UNCHANGED frame

UpdateScript ==
    /\ nops < MaxOps
    /\ \E script_id \in ScriptIdsOf(config), name \in ScriptNames \cup {<<>>},
          category_id \in CategoryIdsOf(config) \cup {NoId},
          contexts \in ContextLists \cup {<<>>}, icon_path \in IconPaths :
          Done("update_script", script_id, <<category_id>>,
               update_script(Now, script_id, name, category_id, contexts,
                             icon_path, denied))
    /\ UNCHANGED <<uuids, frame>>

RemoveScript ==
    /\ nops < MaxOps
    /\ \E script_id \in ScriptIdsOf(config) :
          Done("remove_script", script_id, <<>>, remove_script(Now, script_id, denied))
    /\ UNCHANGED <<uuids, frame>>

\* delete_item on a category: remove_category, then the detail frames are hidden.
RemoveCategory ==
    /\ nops < MaxOps
    /\ \E category_id \in CategoryIdsOf(config) :
          Done("remove_category", category_id, <<>>,
               remove_category(Now, category_id, denied))
    /\ frame' = [frame EXCEPT !.visible = FALSE]
    /\ UNCHANGED uuids

\* Selecting a category in the tree shows its details.
ShowCategoryDetails ==
    /\ nops < MaxOps
    /\ \E category_id \in CategoryIdsOf(config) :
          /\ frame' = _show_category_details(config, category_id)
          /\ frame' # frame
    /\ UNCHANGED <<reg, config, disk, files, uuids, denied, last, nops>>

\* The Save Changes button of the category frame; the parent is whatever the
\* (editable) combobox holds.  (last.arg is the parent name here, and the
\* category argument for update_script.)
SaveCategory ==
    /\ nops < MaxOps
    /\ frame.visible
    /\ \E category_name \in CategoryNames,
          parent_name \in CategoryNames \cup {<<"None">>} :
          Done("save_category", frame.category_id, parent_name,
               save_category(Now, frame, category_name, parent_name, denied))
    /\ UNCHANGED <<uuids, frame>>

Next ==
    \/ AddCategory
    \/ AddScript
    \/ UpdateScript
    \/ RemoveScript
    \/ RemoveCategory
    \/ ShowCategoryDetails
    \/ SaveCategory

Spec == Init /\ [][Next]_vars

-----------------------------------------------------------------------------
(* The whole surface: the window with its Settings menu, and ScriptManager    *)
(* called directly, with ids that may be absent from the catalog.            *)

MaxApiOps == 3

UnknownScriptId == "s0"
UnknownCategoryId == "c0"
UnknownCategoryIds == {UnknownCategoryId, NoId}

PythonPaths == {<<"python3.exe">>}

\* Files offered to import_config: an exported catalog with one category
\* holding one script, and a JSON object that lacks the required keys.
ImportedConfigs ==
    {[categories |-> <<[id |-> "c9", name |-> <<"Tools">>, parent |-> NoId]>>,
      scripts |-> <<[id |-> "s9", name |-> <<"Foo">>, category |-> "c9",
                     filename |-> <<"s9", ".py">>, contexts |-> <<"file">>,
                     icon |-> <<>>]>>,
      python_path |-> <<"python3.exe">>],
     [categories |-> <<>>]}

\* update_script with an id that is not in the catalog, or with an icon path
\* that does not exist.
ApiUpdateScript ==
    /\ nops < MaxApiOps
    /\ \E script_id \in ScriptIdsOf(config) \cup {UnknownScriptId},
          name \in ScriptNames, contexts \in ContextLists,
          icon_path \in {<<>>, MissingIcon} :
          /\ script_id = UnknownScriptId \/ icon_path = MissingIcon
          /\ Done("update_script", script_id, <<NoId>>,
                  update_script(Now, script_id, name, NoId, contexts,
                                icon_path, denied))
    /\ UNCHANGED <<uuids, frame>>

ApiRemoveScript ==
    /\ nops < MaxApiOps
    /\ Done("remove_script", UnknownScriptId, <<>>,
            remove_script(Now, UnknownScriptId, denied))
    /\ UNCHANGED <<uuids, frame>>

ApiRemoveCategory ==
    /\ nops < MaxApiOps
    /\ \E category_id \in UnknownCategoryIds :
          Done("remove_category", category_id, <<>>,
               remove_category(Now, category_id, denied))
    /\ UNCHANGED <<uuids, frame>>

SetPythonPath ==
    /\ nops < MaxApiOps
    /\ \E python_path \in PythonPaths \cup {<<>>}, update \in BOOLEAN :
          Done("set_python_path", NoId, python_path,
               set_python_path(Now, python_path, update, denied))
    /\ UNCHANGED <<uuids, frame>>

ImportConfig ==
    /\ nops < MaxApiOps
    /\ \E imported \in ImportedConfigs :
          Done("import_config", NoId, <<>>, import_config(Now, imported, denied))
    /\ UNCHANGED <<uuids, frame>>

\* add_category with a parent id that is not in the catalog.
ApiAddCategory ==
    /\ nops < MaxApiOps
    /\ uuids.category < MaxCategories
    /\ \E name \in CategoryNames :
          LET category_id == CategoryIds[uuids.category + 1]
          IN  Done("add_category", category_id, <<>>,
                   add_category(Now, category_id, name, UnknownCategoryId))
    /\ uuids' = [uuids EXCEPT !.category = @ + 1]
    /\ UNCHANGED frame

\* add_script with a category id that is not in the catalog.
ApiAddScript ==
    /\ nops < MaxApiOps
    /\ uuids.script < MaxScripts
    /\ \E name \in ScriptNames, contexts \in ContextLists :
          LET script_id == ScriptIds[uuids.script + 1]
          IN  Done("add_script", script_id, <<>>,
                   add_script(Now, script_id, name, UnknownCategoryId, contexts,
                              <<>>, denied))
    /\ uuids' = [uuids EXCEPT !.script = @ + 1]
    /\ UNCHANGED frame

ApiNext ==
    \/ (nops < MaxApiOps /\ AddCategory)
    \/ (nops < MaxApiOps /\ AddScript)
    \/ (nops < MaxApiOps /\ UpdateScript)
    \/ (nops < MaxApiOps /\ RemoveScript)
    \/ (nops < MaxApiOps /\ RemoveCategory)
    \/ (nops < MaxApiOps /\ ShowCategoryDetails)
    \/ (nops < MaxApiOps /\ SaveCategory)
    \/ ApiAddCategory
    \/ ApiAddScript
    \/ ApiUpdateScript
    \/ ApiRemoveScript
    \/ ApiRemoveCategory
    \/ SetPythonPath
    \/ ImportConfig

ApiSpec == Init /\ [][ApiNext]_vars

-----------------------------------------------------------------------------
(* ScriptManager started on a config.json that is already there: load_config *)
(* takes whatever catalog the file holds.                                    *)

MaxLoadOps == 2

\* Catalogs found in config.json: one whose two categories are each other's
\* parent, with a script in one of them, and the same catalog without the
\* cycle.
LoadedConfigs ==
    {[categories |-> <<[id |-> "c7", name |-> <<"Tools">>, parent |-> p],
                       [id |-> "c8", name |-> <<"Utils">>, parent |-> "c7"]>>,
      scripts |-> <<[id |-> "s7", name |-> <<"Foo">>, category |-> "c7",
                     filename |-> <<"s7", ".py">>, contexts |-> <<"file">>,
                     icon |-> <<>>]>>,
      python_path |-> <<"python.exe">>] : p \in {"c8", NoId}}

LoadInit ==
    /\ reg = InitialRegistry
    /\ config \in LoadedConfigs
    /\ disk = config
    /\ files = {<<"s7", ".py">>}
    /\ uuids = [category |-> 0, script |-> 0]
    /\ denied \in Locks
    /\ frame = [category_id |-> NoId,
                parent_map |-> [name \in {<<"None">>} |-> NoId],
                visible |-> FALSE]
    /\ last = [op |-> "init", id |-> NoId, arg |-> <<>>, result |-> "", log |-> <<>>]
    /\ nops = 0

LoadNext ==
    \/ (nops < MaxLoadOps /\ AddCategory)
    \/ (nops < MaxLoadOps /\ AddScript)
    \/ (nops < MaxLoadOps /\ UpdateScript)
    \/ (nops < MaxLoadOps /\ RemoveScript)
    \/ (nops < MaxLoadOps /\ RemoveCategory)

LoadSpec == LoadInit /\ [][LoadNext]_vars

-----------------------------------------------------------------------------
(* The process stopping inside update_script, and the next start.            *)

MaxCrashOps == 3

\* update_script stopped after its first `steps` steps; the steps are the
\* remove_menu_item calls, the update of the record, save_config, and the
\* add_menu_item calls.
update_script_stopped(w, script_id, name, category_id, contexts, locked, steps) ==
    LET i == IndexOf(w.config.scripts, script_id, 1)
        script == w.config.scripts[i]
        m == Len(script.contexts)
        w1 == RemoveEntries(w, script, MenuPath(w.config, script),
                            IF steps < m THEN steps ELSE m, locked)
        w2 == IF steps > m
              THEN UpdateFields(w1, i, name, category_id, contexts, <<>>) ELSE w1
        w3 == IF steps > m + 1 THEN save_config(w2) ELSE w2
        new == w3.config.scripts[i]
    IN  IF steps > m + 2
        THEN CreateEntries(w3, new, MenuPath(w3.config, new), steps - (m + 2), locked)
        ELSE w3

\* The number of steps of this update_script.
UpdateSteps(cfg, script_id, contexts) ==
    LET script == cfg.scripts[IndexOf(cfg.scripts, script_id, 1)]
    IN  Len(script.contexts) + 2
           + (IF contexts # <<>> THEN Len(contexts) ELSE Len(script.contexts))

\* The process dies inside update_script and is started again: the catalog
\* in memory is lost and load_config reads config.json.
CrashInUpdateScript ==
    /\ nops < MaxCrashOps
    /\ \E script_id \in ScriptIdsOf(config), name \in ScriptNames \cup {<<>>},
          category_id \in CategoryIdsOf(config) \cup {NoId},
          contexts \in ContextLists \cup {<<>>} :
          \E steps \in 0..(UpdateSteps(config, script_id, contexts) - 1) :
             LET w == update_script_stopped(Now, script_id, name, category_id,
                                            contexts, denied, steps)
             IN  /\ reg' = w.reg
                 /\ disk' = w.disk
                 /\ config' = w.disk
                 /\ files' = w.files
                 /\ last' = [op |-> "crash_update_script", id |-> script_id,
                             arg |-> <<category_id>>, result |-> "", log |-> w.log]
    /\ frame' = [category_id |-> NoId,
                 parent_map |-> [name \in {<<"None">>} |-> NoId],
                 visible |-> FALSE]
    /\ nops' = nops + 1
    /\ UNCHANGED <<uuids, denied>>

CrashNext ==
    \/ (nops < MaxCrashOps /\ AddCategory)
    \/ (nops < MaxCrashOps /\ AddScript)
    \/ (nops < MaxCrashOps /\ UpdateScript)
    \/ CrashInUpdateScript

CrashSpec == Init /\ [][CrashNext]_vars

-----------------------------------------------------------------------------
(* The registry engine alone: add_menu_item and remove_menu_item applied to  *)
(* bounded paths, on a store that may hold keys written by other programs.   *)

RegContexts == {"file", "txtfile"}

\* menu_path arguments, split: a command in the top group, a command named
\* like a group, a command inside a group, a command inside a subgroup, and
\* a command without any group.
RegPaths ==
    {<<"ScriptTools", "Foo">>, <<"ScriptTools", "Tools">>,
     <<"ScriptTools", "Tools", "Foo">>,
     <<"ScriptTools", "Tools", "Utils", "Foo">>, <<"Foo">>}

\* (command, icon) arguments.
RegCommands == {<<<<"run1">>, <<>>>>, <<<<"run2">>, <<"a.ico">>>>}

ForeignKeys ==
    {<<"*", "shell", "ScriptTools", "shell", "Other">>,
     <<"*", "shell", "ScriptTools", "shell", "Tools">>,
     <<"*", "shell", "ScriptTools", "shell", "Tools", "shell", "Other">>}

RegLocks == {{}, {<<"*", "shell", "ScriptTools", "shell", "Tools">>}}

RECURSIVE CreateKeys(_, _)
CreateKeys(r, keys) ==
    IF keys = {} THEN r
    ELSE LET k == CHOOSE x \in keys : TRUE
         IN  CreateKeys(CreateKey(r, k), keys \ {k})

RegInit ==
    /\ reg \in {CreateKeys(InitialRegistry, F \cup {<<"txtfile", "shell">>}) :
                  F \in SUBSET ForeignKeys}
    /\ config = default_config
    /\ disk = default_config
    /\ files = {}
    /\ uuids = [category |-> 0, script |-> 0]
    /\ denied \in RegLocks
    /\ frame = [category_id |-> NoId,
                parent_map |-> [name \in {<<"None">>} |-> NoId],
                visible |-> FALSE]
    /\ last = [op |-> "init", ctx |-> "", path |-> <<>>, command |-> <<>>,
               icon |-> <<>>, ok |-> TRUE, gone |-> {}]
    /\ nops = 0

RegDone(op, ctx, path, ci, out) ==
    /\ reg' = out.reg
    /\ last' = [op |-> op, ctx |-> ctx, path |-> path, command |-> ci[1],
                icon |-> ci[2], ok |-> out.ok,
                gone |-> DOMAIN reg \ DOMAIN out.reg]
    /\ nops' = nops + 1
    /\ UNCHANGED <<config, disk, files, uuids, denied, frame>>

RegAdd ==
    /\ nops < MaxRegOps
    /\ \E ctx \in RegContexts, path \in RegPaths, ci \in RegCommands :
          RegDone("add", ctx, path, ci,
                  add_menu_item(reg, ctx, path, ci[1], ci[2], denied))

RegRemove ==
    /\ nops < MaxRegOps
    /\ \E ctx \in RegContexts, path \in RegPaths :
          RegDone("remove", ctx, path, <<<<>>, <<>>>>,
                  remove_menu_item(reg, ctx, path, denied))

RegNext == RegAdd \/ RegRemove

RegSpec == RegInit /\ [][RegNext]_vars

-----------------------------------------------------------------------------
(* Claims about the registry engine (checked under RegSpec) *)

\* A step of RegSpec that is a call of remove_menu_item / add_menu_item.
IsRemoveStep == nops' = nops + 1 /\ last'.op = "remove"

\* C3: remove(contextClass, path) targets the leaf key that
\* add(contextClass, path, command) created: after a successful add followed
\* by remove with the same context class and path (the store refusing
\* nothing), neither the leaf key nor its command sub-node exists.
C3_RemoveDeletesAddedLeaf ==
    [][(/\ last.op = "add" /\ last.ok
        /\ IsRemoveStep
        /\ last'.ctx = last.ctx /\ last'.path = last.path
        /\ denied = {})
       => LET key == AddCommandKey(last.ctx, last.path)
          IN  /\ key \notin DOMAIN reg'
              /\ key \o <<"command">> \notin DOMAIN reg']_vars

\* The key of the n-th segment of a path, as add_menu_item creates it.
GroupKey(ctx, path, n) == AddKeyPath(ctx, path, n - 1) \o <<path[n]>>

\* C5: after remove(contextClass, path), no intermediate group key of the
\* path is left in the store without children.
C5_NoChildlessGroupLeft ==
    (last.op = "remove" /\ denied = {})
    => \A n \in 1..(Len(last.path) - 1) :
          LET g == GroupKey(last.ctx, last.path, n)
          IN  g \in DOMAIN reg => Children(reg, g) # {}

\* C6: remove(contextClass, path) creates no key, changes no value of a key
\* it leaves, deletes no key other than the command key it targets, that
\* key's command sub-node and the parent keys built from the path, and
\* deletes no key that still has a child.
C6_RemoveFrame ==
    [][IsRemoveStep
       => LET ctx == last'.ctx
              path == last'.path
              key == RemoveCommandKey(ctx, path)
              parents == {RemoveKeyPath(ctx, path, i) : i \in 1..(Len(path) - 1)}
              deleted == DOMAIN reg \ DOMAIN reg'
          IN  /\ DOMAIN reg' \subseteq DOMAIN reg
              /\ deleted \subseteq {key, key \o <<"command">>} \cup parents
              /\ \A k \in deleted : Children(reg', k) = {}
              /\ \A k \in DOMAIN reg' : reg'[k] = reg[k]]_vars

\* C6, witness: a remove deleted a leaf whose group keeps a sibling.
C6_Witness ==
    /\ last.op = "remove"
    /\ RemoveCommandKey(last.ctx, last.path) \in last.gone
    /\ Children(reg, RemoveKeyPath(last.ctx, last.path, Len(last.path) - 1)) # {}

\* C7: add is idempotent: add called again with the arguments of the add
\* that just ran leaves every key and every stored value as it is.
C7_AddIdempotent ==
    last.op = "add"
    => add_menu_item(reg, last.ctx, last.path, last.command, last.icon,
                     denied).reg = reg

\* C7, witness: an add into a nested group succeeded on a store that already
\* held entries.
C7_Witness ==
    /\ last.op = "add" /\ last.ok
    /\ Len(last.path) >= 3
    /\ nops >= 2
    /\ <<"Icon", <<"a.ico">>>> \in reg[AddCommandKey(last.ctx, last.path)]

-----------------------------------------------------------------------------
(* Claims about the catalog and its registry mirror (checked under Spec) *)

\* A step of Spec that is the given operation.
IsStep(op) == nops' = nops + 1 /\ last'.op = op

\* Keys that carry a command sub-node.
LeafKeys(r) == {k \in DOMAIN r : k \o <<"command">> \in DOMAIN r}

ManagedRoots ==
    {BaseKey(ctx) \o <<"ScriptTools">> : ctx \in {"file", "directory"}}

ManagedLeafKeys(r) ==
    {k \in LeafKeys(r) : \E root \in ManagedRoots : IsPrefix(root, k)}

\* The leaf keys of a script: one per context, at its resolved path.
ScriptLeafKeys(cfg, script) ==
    {AddCommandKey(script.contexts[j], MenuPath(cfg, script)) :
        j \in 1..Len(script.contexts)}

ExpectedLeafKeys(cfg) ==
    UNION {ScriptLeafKeys(cfg, cfg.scripts[i]) : i \in 1..Len(cfg.scripts)}

\* The categories below category_id.
Descendants(cfg, category_id) ==
    {cfg.categories[i].id : i \in
        {j \in 1..Len(cfg.categories) :
            IsChild(cfg, cfg.categories[j].parent, category_id,
                    Len(cfg.categories) + 1)}}

\* C1: as long as the store refuses nothing, the leaf command keys under the
\* managed root are exactly the keys of (context, resolved path) over the
\* scripts of the catalog.
C1_RegistryMirrorsCatalog ==
    denied = {} => ManagedLeafKeys(reg) = ExpectedLeafKeys(config)

\* C2: renaming a category that directly contains a registered script adds
\* the script's leaf at the new resolved path and leaves no leaf at the old
\* resolved path, in every context of the script.
C2_RenameMovesLeaf ==
    [][(IsStep("save_category") /\ denied = {}
        /\ last'.result = "Updated category")
       => \A i \in 1..Len(config.scripts) :
             LET script == config.scripts[i]
                 old == ScriptLeafKeys(config, script)
                 new == ScriptLeafKeys(config', script)
             IN  (/\ script.category = last'.id
                  /\ old \subseteq LeafKeys(reg)
                  /\ old \cap ExpectedLeafKeys(config') = {})
                 => /\ new \subseteq LeafKeys(reg')
                    /\ old \cap DOMAIN reg' = {}]_vars

\* The calls of a log without their outcome.
Calls(log) == [j \in 1..Len(log) |-> [log[j] EXCEPT !.ok = TRUE]]

RemoveCalls(cfg, script) ==
    [j \in 1..Len(script.contexts) |->
        Event("remove", script.contexts[j], MenuPath(cfg, script), TRUE)]

AddCalls(cfg, script) ==
    [j \in 1..Len(script.contexts) |->
        Event("add", script.contexts[j], MenuPath(cfg, script), TRUE)]

\* C4: update_script of an existing script makes, in this order, one remove
\* call per pre-update context with the path resolved from the pre-update
\* record, the mutation, the save of the catalog (which then holds the new
\* record), and one add call per post-update context with the path resolved
\* from the post-update record.
C4_UpdateOrder ==
    [][(IsStep("update_script") /\ last'.result = "True")
       => LET i == IndexOf(config.scripts, last'.id, 1)
          IN  /\ Calls(last'.log) =
                    RemoveCalls(config, config.scripts[i])
                    \o <<Event("mutate", "", <<>>, TRUE),
                         Event("persist", "", <<>>, TRUE)>>
                    \o AddCalls(config', config'.scripts[i])
              /\ disk' = config']_vars

\* C4, witness: an update moved or renamed a script that has two contexts and
\* sits in a category.
C4_Witness ==
    /\ last.op = "update_script" /\ last.result = "True"
    /\ Len(last.log) = 6
    /\ last.log[1].path # last.log[6].path
    /\ Len(last.log[1].path) >= 3

\* C8: remove_category(A) removes A, every category below A and every script
\* in any of them from the catalog, and no leaf of such a script is left in
\* the store.
C8_CascadeDelete ==
    [][(IsStep("remove_category") /\ denied = {})
       => LET gone == Descendants(config, last'.id) \cup {last'.id}
          IN  /\ CategoryIdsOf(config') \cap gone = {}
              /\ \A i \in 1..Len(config.scripts) :
                    LET script == config.scripts[i]
                    IN  script.category \in gone
                        => /\ script.id \notin ScriptIdsOf(config')
                           /\ (ScriptLeafKeys(config, script)
                                 \ ExpectedLeafKeys(config')) \cap DOMAIN reg' = {}]_vars

\* The names that denote only the category itself or categories below it.
CyclicParentNames(cfg, category_id) ==
    LET below == Descendants(cfg, category_id) \cup {category_id}
        NamesOf(ids) == {cfg.categories[i].name :
                            i \in {j \in 1..Len(cfg.categories) :
                                      cfg.categories[j].id \in ids}}
    IN  NamesOf(below) \ NamesOf(CategoryIdsOf(cfg) \ below)

\* C9: a category update whose new parent is the category itself or one of
\* its descendants is rejected: it changes no category (neither a name nor a
\* parent).
C9_CycleRejected ==
    [][(/\ IsStep("save_category")
        /\ last'.id \in CategoryIdsOf(config)
        /\ last'.arg \in CyclicParentNames(config, last'.id))
       => config'.categories = config.categories]_vars

\* C10: when the file registration of a script succeeds and its directory
\* registration is rejected, add_script / update_script report
\* PartiallyRegistered.
C10_PartialFailureReported ==
    (/\ last.op \in {"add_script", "update_script"}
     /\ \E j \in 1..Len(last.log) :
           last.log[j].ev = "add" /\ last.log[j].ctx = "file" /\ last.log[j].ok
     /\ \E j \in 1..Len(last.log) :
           last.log[j].ev = "add" /\ last.log[j].ctx = "directory" /\ ~last.log[j].ok)
    => last.result = "PartiallyRegistered"

-----------------------------------------------------------------------------
(* Claims about category updates, path resolution and failures *)

\* C11: a successful category rename or re-parent re-registers the scripts
\* of every descendant category: for each script in a category below the
\* updated one whose leaves were registered, a leaf exists at its
\* post-update resolved path and none is left at its pre-update resolved
\* path, in each of its contexts.
C11_RenameReregistersTransitively ==
    [][(IsStep("save_category") /\ denied = {}
        /\ last'.result = "Updated category")
       => \A i \in 1..Len(config.scripts) :
             LET script == config.scripts[i]
                 old == ScriptLeafKeys(config, script)
                 new == ScriptLeafKeys(config', script)
             IN  (/\ script.category \in Descendants(config, last'.id)
                  /\ old \subseteq LeafKeys(reg)
                  /\ old \cap ExpectedLeafKeys(config') = {})
                 => /\ new \subseteq LeafKeys(reg')
                    /\ old \cap DOMAIN reg' = {}]_vars

\* The names of a chain of categories (positions in cfg.categories), in order.
RECURSIVE ChainNames(_, _, _)
ChainNames(cfg, chain, n) ==
    IF n = 0 THEN <<>>
    ELSE ChainNames(cfg, chain, n - 1) \o cfg.categories[chain[n]].name

\* The chains c1, ..., ck from the root downward that end in category_id.
RootChains(cfg, category_id) ==
    {chain \in UNION {[1..k -> 1..Len(cfg.categories)] : k \in 0..Len(cfg.categories)} :
        LET k == Len(chain)
            cat(j) == cfg.categories[chain[j]]
        IN  /\ IF k = 0 THEN category_id = NoId ELSE cat(k).id = category_id
            /\ k > 0 => cat(1).parent = NoId
            /\ \A j \in 2..k : cat(j).parent = cat(j - 1).id}

\* C12: for a script named n whose category chain from the root downward is
\* c1, ..., ck, the resolved path is ["ScriptTools", c1.name, ..., ck.name, n],
\* and add_script passes exactly this path to the registry, once per context.
C12_ResolveRootFirst ==
    [][/\ \A i \in 1..Len(config'.scripts) :
             LET script == config'.scripts[i]
             IN  \A chain \in RootChains(config', script.category) :
                    MenuPath(config', script) =
                       <<"ScriptTools">> \o ChainNames(config', chain, Len(chain))
                          \o script.name
       /\ IsStep("add_script")
          => LET script == config'.scripts[Len(config'.scripts)]
                 adds == SelectSeq(last'.log, LAMBDA e : e.ev = "add")
             IN  /\ script.id = last'.id
                 /\ Len(adds) = Len(script.contexts)
                 /\ \A chain \in RootChains(config', script.category) :
                       \A j \in 1..Len(adds) :
                          adds[j].path =
                             <<"ScriptTools">> \o ChainNames(config', chain, Len(chain))
                                \o script.name]_vars

\* C12, witness: a script was added to a category that has a parent category,
\* and its registration received a path of four segments.
C12_Witness ==
    /\ last.op = "add_script"
    /\ \E j \in 1..Len(last.log) :
          /\ last.log[j].ev = "add"
          /\ Len(last.log[j].path) = 4
          /\ last.log[j].path[1] = "ScriptTools"
    /\ RootChains(config, config.scripts[Len(config.scripts)].category) # {}

\* C13: when add_menu_item fails for a context while add_script or
\* update_script registers a script, the value the operation returns differs
\* from the value of a fully successful registration (the script id for
\* add_script, True for update_script).
C13_AddFailureReported ==
    (/\ last.op \in {"add_script", "update_script"}
     /\ \E j \in 1..Len(last.log) : last.log[j].ev = "add" /\ ~last.log[j].ok)
    => last.result \notin {last.id, "True"}

\* C14: remove_menu_item returns failure when the deletion of the command key
\* is refused (permission denied) while the key exists.
C14_RemoveReportsDenied ==
    [][(/\ IsRemoveStep
        /\ RemoveCommandKey(last'.ctx, last'.path) \in DOMAIN reg
        /\ RemoveCommandKey(last'.ctx, last'.path) \in denied)
       => ~last'.ok]_vars

\* C15: when an add_menu_item call fails during add_script, the new record is
\* in the catalog in memory and in the saved catalog when add_script returns.
C15_CatalogKeptOnAddFailure ==
    (/\ last.op = "add_script"
     /\ \E j \in 1..Len(last.log) : last.log[j].ev = "add" /\ ~last.log[j].ok)
    => /\ Find(config.scripts, last.id) # <<>>
       /\ Find(disk.scripts, last.id) = Find(config.scripts, last.id)

\* C15, witness: add_script returned after a refused registration and the
\* record is in the catalog and on disk.
C15_Witness ==
    /\ last.op = "add_script"
    /\ \E j \in 1..Len(last.log) : last.log[j].ev = "add" /\ ~last.log[j].ok
    /\ last.id \in ScriptIdsOf(config)
    /\ last.id \in ScriptIdsOf(disk)

\* The keys add_menu_item creates for a path, in the order it creates them.
RECURSIVE AddKeySeq(_, _, _)
AddKeySeq(ctx, path, n) ==
    IF n = 0 THEN <<>>
    ELSE IF n = Len(path)
    THEN AddKeySeq(ctx, path, n - 1)
            \o <<AddCommandKey(ctx, path), AddCommandKey(ctx, path) \o <<"command">>>>
    ELSE AddKeySeq(ctx, path, n - 1)
            \o <<GroupKey(ctx, path, n)>>
            \o (IF n = 1 THEN <<GroupKey(ctx, path, n) \o <<"shell">>>> ELSE <<>>)

\* C16: when a key operation of add_menu_item is refused, add_menu_item
\* returns failure, creates and changes nothing at or below the refused key
\* (no further key operation), and the keys it created before stay in the
\* store, the group keys with their MUIVerb value.
C16_AddAbortsWithoutRollback ==
    [][(nops' = nops + 1 /\ last'.op = "add")
       => LET ctx == last'.ctx
              path == last'.path
              keys == AddKeySeq(ctx, path, Len(path))
              bad == {j \in 1..Len(keys) : keys[j] \in denied}
          IN  bad # {}
              => LET f == CHOOSE j \in bad : \A x \in bad : j <= x
                 IN  /\ ~last'.ok
                     /\ \A j \in 1..(f - 1) : keys[j] \in DOMAIN reg'
                     /\ \A n \in 1..(Len(path) - 1) :
                           (\E j \in 1..(f - 1) : keys[j] = GroupKey(ctx, path, n))
                           => <<"MUIVerb", <<path[n]>>>> \in reg'[GroupKey(ctx, path, n)]
                     /\ \A k \in DOMAIN reg' :
                           IsPrefix(keys[f], k)
                           => k \in DOMAIN reg /\ reg'[k] = reg[k]]_vars

\* C16, witness: the first add of a run failed at its second segment and the
\* top group it wrote before is in the store.
C16_Witness ==
    /\ last.op = "add" /\ ~last.ok
    /\ nops = 1
    /\ Len(last.path) >= 3
    /\ <<"MUIVerb", <<"ScriptTools">>>> \in reg[GroupKey(last.ctx, last.path, 1)]
    /\ AddCommandKey(last.ctx, last.path) \notin DOMAIN reg

\* C17: remove_menu_item returns success when the command key, its command
\* sub-node or its parent group is absent, and a remove repeated with the
\* same arguments returns success both times.
C17_RemoveAbsentSucceeds ==
    [][IsRemoveStep
       => LET key == RemoveCommandKey(last'.ctx, last'.path)
              parent == RemoveKeyPath(last'.ctx, last'.path, Len(last'.path) - 1)
          IN  /\ (\/ key \notin DOMAIN reg
                  \/ key \o <<"command">> \notin DOMAIN reg
                  \/ parent \notin DOMAIN reg) => last'.ok
              /\ (/\ last.op = "remove"
                  /\ last.ctx = last'.ctx /\ last.path = last'.path)
                 => last.ok /\ last'.ok]_vars

\* C17, witness: a remove that was not the first operation of the run found
\* its command key absent, deleted nothing and returned success.
C17_Witness ==
    /\ last.op = "remove" /\ last.ok
    /\ nops >= 2
    /\ last.gone = {}
    /\ RemoveCommandKey(last.ctx, last.path) \notin DOMAIN reg

\* C18: update_script and remove_script called with an id that is not in the
\* catalog return False and have no effect: no registry call, no change of
\* the catalog, of the saved catalog or of the stored files, no save.
C18_UnknownScriptNoEffect ==
    [][((IsStep("update_script") \/ IsStep("remove_script"))
        /\ last'.id \notin ScriptIdsOf(config))
       => /\ last'.result = "False"
          /\ last'.log = <<>>
          /\ UNCHANGED <<reg, config, disk, files>>]_vars

\* C18, witness: update_script was called with an unknown id on a catalog
\* that holds a script.
C18_Witness ==
    /\ last.op = "update_script"
    /\ last.id = UnknownScriptId
    /\ last.result = "False"
    /\ config.scripts # <<>>

\* C19: remove_category called with an id that is not in the catalog (the
\* root id included) reports failure and has no effect: no script and no
\* category removed, no registry call, no save.
C19_UnknownCategoryNoEffect ==
    [][(IsStep("remove_category") /\ last'.id \notin CategoryIdsOf(config))
       => /\ last'.result # "True"
          /\ last'.log = <<>>
          /\ UNCHANGED <<reg, config, disk, files>>]_vars

-----------------------------------------------------------------------------
(* Claims about the data model, ordering inside operations, and recovery *)

\* The walk of the parent chain from category_id comes back to a category it
\* has visited.
RECURSIVE Revisits(_, _, _)
Revisits(cfg, category_id, seen) ==
    IF category_id = NoId THEN FALSE
    ELSE IF category_id \in seen THEN TRUE
    ELSE LET found == Find(cfg.categories, category_id)
         IN  IF found = <<>> THEN FALSE
             ELSE Revisits(cfg, found[1].parent, seen \cup {category_id})

\* C21: in every catalog reached through add_category, remove_category and
\* the category update, the parent chain of every category is acyclic and
\* every parent id that is set is the id of a category of the catalog.
C21_CategoryParentsValid ==
    \A i \in 1..Len(config.categories) :
       LET category == config.categories[i]
       IN  /\ category.parent \in CategoryIdsOf(config) \cup {NoId}
           /\ ~Revisits(config, category.id, {})

\* C22: remove_category(A) resolves the path of every script of the cascade
\* while all its ancestor categories up to A are in the catalog (each remove
\* call gets the path resolved in the catalog as it was before the
\* operation), removes every script of the cascade in each of its contexts,
\* and deletes A after all of these calls.
C22_LeavesBeforeAncestors ==
    [][(IsStep("remove_category") /\ last'.id \in CategoryIdsOf(config))
       => LET gone == Descendants(config, last'.id) \cup {last'.id}
              inside == {i \in 1..Len(config.scripts) :
                            config.scripts[i].category \in gone}
              log == last'.log
              removes == {j \in 1..Len(log) : log[j].ev = "remove"}
          IN  /\ \A j \in removes :
                    \E i \in inside :
                       /\ log[j].path = MenuPath(config, config.scripts[i])
                       /\ \E c \in 1..Len(config.scripts[i].contexts) :
                             log[j].ctx = config.scripts[i].contexts[c]
              /\ \A i \in inside :
                    \A c \in 1..Len(config.scripts[i].contexts) :
                       \E j \in removes :
                          /\ log[j].path = MenuPath(config, config.scripts[i])
                          /\ log[j].ctx = config.scripts[i].contexts[c]
              /\ Len(log) >= 2
              /\ log[Len(log) - 1].ev = "mutate"
              /\ log[Len(log)].ev = "persist"
              /\ \A j \in removes : j < Len(log) - 1
              /\ last'.id \notin CategoryIdsOf(config')]_vars

\* C22, witness: a category was removed together with a subcategory that held
\* a script (its path had four segments).
C22_Witness ==
    /\ last.op = "remove_category" /\ last.result = "True"
    /\ \E j \in 1..Len(last.log) :
          last.log[j].ev = "remove" /\ Len(last.log[j].path) = 4
    /\ config.categories = <<>>

\* C23: remove_script of an existing script makes one remove call per context
\* with the path resolved from the catalog that still holds the record, then
\* deletes the stored file, the icon and the record, then saves; afterwards
\* no record has the id, and the records and stored files of the other
\* scripts, the categories and the tool path are as before.
C23_RemoveScriptOrder ==
    [][(IsStep("remove_script") /\ last'.id \in ScriptIdsOf(config))
       => LET script == config.scripts[IndexOf(config.scripts, last'.id, 1)]
          IN  /\ Calls(last'.log) =
                    RemoveCalls(config, script)
                    \o <<Event("mutate", "", <<>>, TRUE),
                         Event("persist", "", <<>>, TRUE)>>
              /\ last'.id \notin ScriptIdsOf(config')
              /\ files' = files \ {script.filename, script.icon}
              /\ config'.scripts = SelectSeq(config.scripts,
                                             LAMBDA t : t.id # script.id)
              /\ config'.categories = config.categories
              /\ config'.python_path = config.python_path
              /\ disk' = config']_vars

\* C23, witness: a script with two contexts was removed and another script
\* with its stored file stays.
C23_Witness ==
    /\ last.op = "remove_script" /\ last.result = "True"
    /\ Len(last.log) = 4
    /\ config.scripts # <<>>
    /\ config.scripts[1].filename \in files

\* C24: add_category assigns an id no category has, appends exactly one
\* record with this id, saves, and leaves the registry, the stored files, the
\* other categories, the scripts and the tool path unchanged.
C24_AddCategoryFrame ==
    [][IsStep("add_category")
       => LET n == Len(config.categories)
          IN  /\ last'.id \notin CategoryIdsOf(config)
              /\ last'.result = last'.id
              /\ Len(config'.categories) = n + 1
              /\ SubSeq(config'.categories, 1, n) = config.categories
              /\ config'.categories[n + 1].id = last'.id
              /\ config'.scripts = config.scripts
              /\ config'.python_path = config.python_path
              /\ disk' = config'
              /\ reg' = reg
              /\ files' = files]_vars

\* C24, witness: a second category was added while the registry held leaves.
C24_Witness ==
    /\ last.op = "add_category"
    /\ Len(config.categories) >= 2
    /\ ManagedLeafKeys(reg) # {}

\* Does t occur in s as a contiguous piece?
ContainsSeq(s, t) ==
    \E a \in 0..(Len(s) - Len(t)) : SubSeq(s, a + 1, a + Len(t)) = t

\* The leaf key k runs the stored file.
LaunchesFile(r, k, filename) ==
    /\ k \o <<"command">> \in DOMAIN r
    /\ \E v \in r[k \o <<"command">>] : v[1] = "" /\ ContainsSeq(v[2], filename)

\* The leaves of the script in the store all sit at keys of its record in cfg.
LeavesAgree(r, cfg, script_id) ==
    LET found == Find(cfg.scripts, script_id)
    IN  found # <<>>
        => \A k \in ManagedLeafKeys(r) :
              LaunchesFile(r, k, found[1].filename)
              => k \in ScriptLeafKeys(cfg, found[1])

\* C25: when the process stops inside update_script, the store holds no leaf
\* of that script at a path or context that disagrees with the saved
\* catalog (given that it held none before).
C25_CrashLeavesNoStaleLeaf ==
    [][(/\ nops' = nops + 1
        /\ last'.op = "crash_update_script"
        /\ LeavesAgree(reg, disk, last'.id))
       => LeavesAgree(reg', disk', last'.id)]_vars

\* C26: an operation that resolves the path of a script whose category chain
\* contains a cycle ends with CycleError.
C26_CycleDetected ==
    [][(/\ nops' = nops + 1
        /\ \/ /\ last'.op \in {"update_script", "remove_script"}
              /\ \E i \in 1..Len(config.scripts) :
                    /\ config.scripts[i].id = last'.id
                    /\ Revisits(config, config.scripts[i].category, {})
           \/ /\ last'.op = "add_script"
              /\ \E i \in 1..Len(config'.scripts) :
                    /\ config'.scripts[i].id = last'.id
                    /\ Revisits(config', config'.scripts[i].category, {}))
       => last'.result = "CycleError"]_vars

\* C27: after a full re-sync (the tool path changed and the registry update
\* confirmed, or a catalog imported) with nothing refused, every script of
\* the catalog has, in each of its contexts, a leaf at its resolved path
\* whose command is the launcher command of the current tool path and of the
\* script's stored file.
C27_ResyncRestoresMirror ==
    [][(/\ nops' = nops + 1
        /\ denied = {}
        /\ last'.result \in {"Updated all registry entries with new Python path",
                             "Configuration imported successfully"})
       => \A i \in 1..Len(config'.scripts) :
             LET script == config'.scripts[i]
             IN  \A k \in ScriptLeafKeys(config', script) :
                    /\ k \in LeafKeys(reg')
                    /\ <<"", LauncherCmd(config', script)>>
                          \in reg'[k \o <<"command">>]]_vars

\* Every context of the script has a leaf at its resolved path that runs its
\* stored file.
Registered(r, cfg, script) ==
    \A k \in ScriptLeafKeys(cfg, script) :
       k \in LeafKeys(r) /\ LaunchesFile(r, k, script.filename)

\* C28: remove_script(S) and update_script(S) leave the leaves of every other
\* script T of the catalog in place: if T was registered before, it is
\* registered afterwards.
C28_NoCrossScriptInterference ==
    [][((IsStep("remove_script") \/ IsStep("update_script"))
        /\ last'.result = "True")
       => \A i \in 1..Len(config'.scripts) :
             LET T == config'.scripts[i]
             IN  (/\ T.id # last'.id
                  /\ Find(config.scripts, T.id) = <<T>>
                  /\ Registered(reg, config, T))
                 => Registered(reg', config', T)]_vars

\* C29: in every catalog reached through add_script, update_script,
\* remove_script, add_category and remove_category, the category of every
\* script is empty or the id of a category of the catalog.
C29_ScriptCategoryValid ==
    \A i \in 1..Len(config.scripts) :
       config.scripts[i].category \in CategoryIdsOf(config) \cup {NoId}

\* C30: update_script keeps the id and the stored file of the script, every
\* other script, every category and the tool path; a field changes only to a
\* non-empty value that was passed; with an empty category the script stays
\* in its category and is registered again at that category's path.
C30_UpdateScriptFrame ==
    [][(/\ IsStep("update_script")
        /\ last'.id \in ScriptIdsOf(config)
        /\ last'.result = "True")
       => LET i == IndexOf(config.scripts, last'.id, 1)
              old == config.scripts[i]
              new == config'.scripts[i]
              category_id == last'.arg[1]
          IN  /\ Len(config'.scripts) = Len(config.scripts)
              /\ new.id = old.id
              /\ new.filename = old.filename
              /\ \A j \in 1..Len(config.scripts) :
                    j # i => config'.scripts[j] = config.scripts[j]
              /\ config'.categories = config.categories
              /\ config'.python_path = config.python_path
              /\ new.category = IF category_id = NoId THEN old.category
                                ELSE category_id
              /\ \A j \in 1..Len(last'.log) :
                    (last'.log[j].ev = "add" /\ category_id = NoId)
                    => last'.log[j].path =
                          get_category_path(config, old.category) \o new.name
              /\ \A name \in ScriptNames \cup {<<>>},
                    contexts \in ContextLists \cup {<<>>} :
                    LET s == UpdateFields(Now, i, name, category_id, contexts,
                                          <<>>).config.scripts[i]
                    IN  /\ s.name = IF name = <<>> THEN old.name ELSE name
                        /\ s.contexts = IF contexts = <<>> THEN old.contexts
                                        ELSE contexts
                        /\ s.icon = old.icon]_vars

\* C30, witness: update_script with an empty category renamed a script that
\* sits in a category, and registered it under that category.
C30_Witness ==
    /\ last.op = "update_script" /\ last.result = "True"
    /\ last.arg = <<NoId>>
    /\ \E i \in 1..Len(config.scripts) :
          /\ config.scripts[i].id = last.id
          /\ config.scripts[i].category \in CategoryIdsOf(config)
    /\ Len(last.log) >= 4
    /\ last.log[1].path # last.log[Len(last.log)].path
    /\ Len(last.log[Len(last.log)].path) = 3

=============================================================================
